---------------------------- MODULE Spec2Model ----------------------------
(***************************************************************************)
(* Model of the Plaxter sign-up path:                                      *)
(*   Controllers/signup_controller.go  SignUpController.Handle and the     *)
(*                                     request validation helpers,         *)
(*   Models/signup.go                  SignUpRequest.Normalize,            *)
(*   Services/prisma_user_service.go   PrismaUserService.RegisterUser and  *)
(*                                     the Secret credential wrapper.      *)
(*                                                                         *)
(* A Go string is a sequence of one-character strings (all characters used *)
(* are ASCII, so len() in bytes is Len).  A Go error is either NoError or  *)
(* a record [text, chain]: chain is the set of sentinel errors errors.Is   *)
(* finds when it unwraps the error.                                        *)
(***************************************************************************)
EXTENDS Integers, Sequences, FiniteSets, TLC

(***************************************************************************)
(* Bounds of the model.                                                    *)
(***************************************************************************)
\* concurrent POST /signup requests in one behaviour
NumReqs == 2
\* longest raw string enumerated exhaustively for the pure functions
MaxLen == 3

(***************************************************************************)
(* Program constants.                                                      *)
(***************************************************************************)
\* maxRequestBodyBytes = 1 << 20
maxRequestBodyBytes == 1048576
\* usernamePattern: {3,64}
UsernameMinLen == 3
UsernameMaxLen == 64
\* len(payload.Password.Reveal()) < 12
PasswordMinLen == 12
\* len(name) > 128
NameMaxLen == 128

StatusCreated == 201
StatusBadRequest == 400
StatusMethodNotAllowed == 405
StatusConflict == 409
StatusInternalServerError == 500

(***************************************************************************)
(* Strings.                                                                *)
(***************************************************************************)
Rep(c, n) == [i \in 1..n |-> c]

UpperLetters ==
  <<"A","B","C","D","E","F","G","H","I","J","K","L","M",
    "N","O","P","Q","R","S","T","U","V","W","X","Y","Z">>
LowerLetters ==
  <<"a","b","c","d","e","f","g","h","i","j","k","l","m",
    "n","o","p","q","r","s","t","u","v","w","x","y","z">>
Digits == {"0","1","2","3","4","5","6","7","8","9"}
Range(f) == {f[i] : i \in DOMAIN f}
UpperSet == Range(UpperLetters)
LowerSet == Range(LowerLetters)
Letters == UpperSet \cup LowerSet
\* the characters of [a-zA-Z0-9_] and of [a-z0-9_]
WordChars == Letters \cup Digits \cup {"_"}
LowerWordChars == LowerSet \cup Digits \cup {"_"}

\* U+000B, the vertical tab: TLA+ strings have no escape for it, so the
\* character is written by its Go escape
VerticalTab == "\\v"

\* unicode.IsSpace on ASCII: '\t', '\n', '\v', '\f', '\r', ' ' (strings are
\* ASCII throughout; U+0085, U+00A0 and the other Unicode spaces are left out)
WhiteSpace == {" ", "\t", "\n", VerticalTab, "\f", "\r"}

\* unicode.ToLower on one ASCII character
ToLowerRune(c) ==
  IF c \in UpperSet
    THEN LowerLetters[CHOOSE i \in DOMAIN UpperLetters : UpperLetters[i] = c]
    ELSE c

\* strings.ToLower
ToLower(s) == [i \in DOMAIN s |-> ToLowerRune(s[i])]

SetMin(S) == CHOOSE x \in S : \A y \in S : x <= y
SetMax(S) == CHOOSE x \in S : \A y \in S : y <= x

\* strings.TrimSpace: drop the leading and trailing white space
TrimSpace(s) ==
  LET keep == {i \in DOMAIN s : s[i] \notin WhiteSpace}
  IN  IF keep = {} THEN <<>> ELSE SubSeq(s, SetMin(keep), SetMax(keep))

\* s[n:]
Drop(s, n) == SubSeq(s, n + 1, Len(s))

\* strings.ContainsAny(s, chars)
ContainsAny(s, chars) == \E i \in DOMAIN s : s[i] \in chars

(***************************************************************************)
(* Go errors.                                                              *)
(***************************************************************************)
NoError == [text |-> "<nil>", chain |-> {}]

\* errors.New(msg)
ErrorsNew(msg) == [text |-> msg, chain |-> {}]

\* var ErrUserAlreadyExists = errors.New("user already exists")
ErrUserAlreadyExists ==
  [text |-> "user already exists", chain |-> {"ErrUserAlreadyExists"}]

\* fmt.Errorf(prefix + ": %w", err)
Wrap(prefix, err) == [text |-> prefix \o ": " \o err.text, chain |-> err.chain]

\* errors.Is(err, target) for a sentinel target
ErrorsIs(err, target) == target.chain \subseteq err.chain /\ target.chain # {}

(***************************************************************************)
(* Secret: the credential wrapper.                                         *)
(***************************************************************************)
Redacted == <<"[","R","E","D","A","C","T","E","D","]">>
RedactedJSON ==
  <<"\"","*","*","*","r","e","d","a","c","t","e","d","*","*","*","\"">>

\* mutant: String returns the secret
SecretStringRaw(s) == s

\* func (s Secret) String() string
SecretString(s) == Redacted

\* func (s Secret) GoString() string
SecretGoString(s) == SecretString(s)

\* func (s Secret) Reveal() string
Reveal(s) == s

\* func (s Secret) MarshalJSON() ([]byte, error)
SecretMarshalJSON(s) == [bytes |-> RedactedJSON, err |-> NoError]

\* JSON values a member of the request object can hold
JStr(v) == [t |-> "string", v |-> v]
JNull == [t |-> "null", v |-> <<>>]
JNum == [t |-> "number", v |-> <<>>]

\* json.Unmarshal(data, &plaintext) for a Go string: null is a no-op
UnmarshalString(old, data) ==
  CASE data.t = "string" -> [err |-> NoError, v |-> data.v]
    [] data.t = "null" -> [err |-> NoError, v |-> old]
    [] OTHER ->
         [err |-> ErrorsNew("json: cannot unmarshal into Go value of type string"),
          v |-> old]

\* func (s *Secret) UnmarshalJSON(data []byte) error; s is the value held
\* before the call, v the value held after it
SecretUnmarshalJSON(s, data) ==
  LET plain == UnmarshalString(<<>>, data)
  IN  IF plain.err # NoError THEN [err |-> plain.err, v |-> s]
      ELSE IF plain.v = <<>>
        THEN [err |-> ErrorsNew("secret value must not be empty"), v |-> s]
      ELSE [err |-> NoError, v |-> plain.v]

(***************************************************************************)
(* SignUpRequest and Normalize.                                            *)
(***************************************************************************)
ZeroPayload ==
  [FirstName |-> <<>>, LastName |-> <<>>, Username |-> <<>>,
   Password |-> <<>>, Email |-> <<>>]

\* mutant: one white-space character is cut from each end, not all
TrimOne(s) ==
  LET a == IF s # <<>> /\ s[1] \in WhiteSpace THEN Drop(s, 1) ELSE s
  IN  IF a # <<>> /\ a[Len(a)] \in WhiteSpace THEN SubSeq(a, 1, Len(a) - 1) ELSE a
NormalizeTrimmingOne(r) ==
  [r EXCEPT !.FirstName = TrimOne(r.FirstName),
            !.LastName = TrimOne(r.LastName),
            !.Username = ToLower(TrimOne(r.Username)),
            !.Email = ToLower(TrimOne(r.Email))]

\* mutant: the username and email are trimmed but not lowercased
NormalizeKeepingCase(r) ==
  [r EXCEPT !.FirstName = TrimSpace(r.FirstName),
            !.LastName = TrimSpace(r.LastName),
            !.Username = TrimSpace(r.Username),
            !.Email = TrimSpace(r.Email)]

\* func (r *SignUpRequest) Normalize()
Normalize(r) ==
  [r EXCEPT !.FirstName = TrimSpace(r.FirstName),
            !.LastName = TrimSpace(r.LastName),
            !.Username = ToLower(TrimSpace(r.Username)),
            !.Email = ToLower(TrimSpace(r.Email))]

(***************************************************************************)
(* net/mail.ParseAddress, for addresses written without quoted strings,    *)
(* comments, domain literals, groups or encoded words: addr-spec, or       *)
(* [phrase] "<" addr-spec ">".                                             *)
(***************************************************************************)
\* isAtext's punctuation (the backquote, which a TLA+ string cannot hold and
\* no address of the model uses, is left out)
AtextSpecial ==
  {"!","#","$","%","&","'","*","+","-","/","=","?","^","_","{","|","}","~"}

AtextChars == Letters \cup Digits \cup AtextSpecial

IsAtext(c, dot) ==
  \/ c \in AtextChars
  \/ dot /\ c = "."

\* addrParser.skipSpace: strings.TrimLeft(p.s, " \t")
SkipSpace(s) ==
  LET keep == {i \in DOMAIN s : s[i] \notin {" ", "\t"}}
  IN  IF keep = {} THEN <<>> ELSE Drop(s, SetMin(keep) - 1)

\* length of the longest prefix of s made of atext characters and dots
AtomLen(s) ==
  LET stop == {i \in DOMAIN s : ~IsAtext(s[i], TRUE)}
  IN  IF stop = {} THEN Len(s) ELSE SetMin(stop) - 1

\* consumeAtom's checks on the atom it read (skipped when permissive)
BadAtom(atom, permissive) ==
  \/ atom = <<>>
  \/ /\ ~permissive
     /\ \/ atom[1] = "."
        \/ atom[Len(atom)] = "."
        \/ \E i \in 1..(Len(atom) - 1) : atom[i] = "." /\ atom[i + 1] = "."

Failed(s) == [ok |-> FALSE, rest |-> s]

\* addrParser.consumeAtom(dot = true, permissive)
ConsumeAtom(s, permissive) ==
  IF BadAtom(SubSeq(s, 1, AtomLen(s)), permissive) THEN Failed(s)
  ELSE [ok |-> TRUE, rest |-> Drop(s, AtomLen(s))]

\* consumeAddrSpec after "@": the domain, a dot-atom
AddrSpecDomain(s, domain) ==
  IF domain.ok THEN domain ELSE Failed(s)

\* consumeAddrSpec after the local part: "@", then the domain
AddrSpecLocal(s, local) ==
  IF local.ok /\ local.rest # <<>> /\ local.rest[1] = "@"
    THEN AddrSpecDomain(s, ConsumeAtom(SkipSpace(Drop(local.rest, 1)), FALSE))
    ELSE Failed(s)

\* addrParser.consumeAddrSpec: local-part "@" domain, both dot-atoms
ConsumeAddrSpec(s) == AddrSpecLocal(s, ConsumeAtom(SkipSpace(s), FALSE))

\* addrParser.consumePhrase: the input left after the words of a phrase,
\* and whether at least one word was read
RECURSIVE PhraseRest(_, _)
PhraseWord(s1, w, words) ==
  IF s1 = <<>> \/ ~w.ok THEN [ok |-> words > 0, rest |-> s1]
  ELSE PhraseRest(w.rest, words + 1)

PhraseRest(s, words) ==
  PhraseWord(SkipSpace(s), ConsumeAtom(SkipSpace(s), TRUE), words)

\* parseAddress, angle-addr: addr-spec ">" and nothing after it
AngleClose(inner) ==
  /\ inner.ok
  /\ inner.rest # <<>>
  /\ inner.rest[1] = ">"
  /\ SkipSpace(Drop(inner.rest, 1)) = <<>>

\* parseAddress, name-addr: [phrase] "<" addr-spec ">"
NameAddr(phrase) ==
  /\ phrase.ok
  /\ SkipSpace(phrase.rest) # <<>>
  /\ SkipSpace(phrase.rest)[1] = "<"
  /\ AngleClose(ConsumeAddrSpec(Drop(SkipSpace(phrase.rest), 1)))

\* parseSingleAddress: addr-spec first, name-addr when that fails
SingleAddress(s0, spec) ==
  IF spec.ok THEN SkipSpace(spec.rest) = <<>>
  ELSE IF s0 # <<>> /\ s0[1] = "<" THEN NameAddr([ok |-> TRUE, rest |-> s0])
  ELSE NameAddr(PhraseRest(s0, 0))

\* mail.ParseAddress(s) returns a nil error
ParseAddressOK(s) == SingleAddress(SkipSpace(s), ConsumeAddrSpec(SkipSpace(s)))

(***************************************************************************)
(* Request validation.                                                     *)
(***************************************************************************)
\* usernamePattern = regexp.MustCompile(`^[a-zA-Z0-9_]{3,64}$`)
usernamePattern(s) ==
  /\ Len(s) >= UsernameMinLen
  /\ Len(s) <= UsernameMaxLen
  /\ \A i \in DOMAIN s : s[i] \in WordChars

\* func validateName(name string) error
validateName(name) ==
  IF name = <<>> THEN NoError
  ELSE IF Len(name) > NameMaxLen
    THEN ErrorsNew("names must be fewer than 128 characters")
  ELSE IF ContainsAny(name, {"<", ">", "{", "}", "\n", "\r", "\t"})
    THEN ErrorsNew("names contain unsupported characters")
  ELSE NoError

\* func validateSignUpRequest(payload models.SignUpRequest) error
validateSignUpRequest(payload) ==
  IF ~usernamePattern(payload.Username)
    THEN ErrorsNew("username must be 3-64 characters and use letters, digits, or underscores")
  ELSE IF Len(Reveal(payload.Password)) < PasswordMinLen
    THEN ErrorsNew("password must be at least 12 characters")
  ELSE IF payload.Email # <<>> /\ ~ParseAddressOK(payload.Email)
    THEN ErrorsNew("invalid email address")
  ELSE IF validateName(payload.FirstName) # NoError
    THEN validateName(payload.FirstName)
  ELSE validateName(payload.LastName)

(***************************************************************************)
(* The HTTP request and encoding/json's Decoder.                           *)
(*                                                                         *)
(* A request is [method, body]; a body is                                  *)
(*   kind        "object", "null" or "malformed" (not a JSON value),       *)
(*   members     the object's members in the order written, each           *)
(*               [key, val] with val a JSON value,                         *)
(*   valueBytes  the bytes up to the end of the first JSON value,          *)
(*   trailing    what follows it: "none", "space", "value" or "garbage",   *)
(*   totalBytes  the bytes of the whole body.                              *)
(***************************************************************************)
\* the json tags of SignUpRequest's fields
JsonTags ==
  [FirstName |-> <<"f","i","r","s","t","_","n","a","m","e">>,
   LastName |-> <<"l","a","s","t","_","n","a","m","e">>,
   Username |-> <<"u","s","e","r","n","a","m","e">>,
   Password |-> <<"p","a","s","s","w","o","r","d">>,
   Email |-> <<"e","m","a","i","l">>]

KnownKeys == {JsonTags[f] : f \in DOMAIN JsonTags}

\* encoding/json's case folding of a member key (ASCII)
FoldName(key) == ToLower(key)

\* the struct fields a member key names: the decoder takes the field whose
\* tag is the key, or else the one whose tag is the key up to letter case
FieldsNamed(key) ==
  IF key \in KnownKeys THEN {f \in DOMAIN JsonTags : JsonTags[f] = key}
  ELSE {f \in DOMAIN JsonTags : FoldName(JsonTags[f]) = FoldName(key)}

\* the error the decoder keeps for the end of the value: the first one saved
SaveError(saved, err) == IF saved = NoError THEN err ELSE saved

\* the decoder on the members of an object, in the order written: an unknown
\* key and a value of the wrong type are saved and the decoding goes on, an
\* error of Secret.UnmarshalJSON (called for null too) ends it; a field
\* written twice holds what the last member gave it
RECURSIVE DecodeMembers(_, _, _)
DecodeMembers(members, payload, saved) ==
  IF members = <<>> THEN [err |-> saved, v |-> payload]
  ELSE IF FieldsNamed(Head(members).key) = {}
    THEN DecodeMembers(Tail(members), payload,
                       SaveError(saved, ErrorsNew("json: unknown field")))
  ELSE IF FieldsNamed(Head(members).key) = {"Password"}
    THEN IF SecretUnmarshalJSON(payload.Password, Head(members).val).err # NoError
           THEN [err |-> SecretUnmarshalJSON(payload.Password, Head(members).val).err,
                 v |-> payload]
           ELSE DecodeMembers(Tail(members),
                  [payload EXCEPT !.Password =
                     SecretUnmarshalJSON(payload.Password, Head(members).val).v],
                  saved)
  ELSE DecodeMembers(Tail(members),
         [payload EXCEPT ![CHOOSE f \in FieldsNamed(Head(members).key) : TRUE] =
            UnmarshalString(@, Head(members).val).v],
         SaveError(saved,
           UnmarshalString(<<>>, Head(members).val).err))

\* decoder.DisallowUnknownFields(); decoder.Decode(&payload), reading through
\* http.MaxBytesReader(w, r.Body, maxRequestBodyBytes)
Decode(body) ==
  IF body.valueBytes > maxRequestBodyBytes
    THEN [err |-> ErrorsNew("http: request body too large"), v |-> ZeroPayload]
  ELSE IF body.kind = "malformed"
    THEN [err |-> ErrorsNew("invalid character"), v |-> ZeroPayload]
  ELSE IF body.kind = "null"
    THEN \* a literal ends at the byte after it or at the end of the body:
         \* one that fills the cap with more to come ends on the reader's error
         IF body.valueBytes = maxRequestBodyBytes
            /\ body.totalBytes > maxRequestBodyBytes
           THEN [err |-> ErrorsNew("http: request body too large"), v |-> ZeroPayload]
           ELSE [err |-> NoError, v |-> ZeroPayload]
  ELSE DecodeMembers(body.members, ZeroPayload, NoError)

\* mutant: what follows the JSON value is not looked at
ensureEOFSkipped(body) == NoError

\* func ensureEOF(decoder *json.Decoder) error
ensureEOF(body) ==
  IF body.trailing = "value" THEN ErrorsNew("unexpected trailing data")
  ELSE IF body.trailing = "garbage" THEN ErrorsNew("invalid character")
  ELSE IF body.totalBytes > maxRequestBodyBytes
    THEN ErrorsNew("http: request body too large")
  ELSE NoError

(***************************************************************************)
(* Responses.                                                              *)
(***************************************************************************)
\* func writeError(w, status, msg): {"error": msg}
writeError(status, msg) == [status |-> status, key |-> "error", text |-> msg]

\* writeJSON(w, http.StatusCreated, map[string]string{"message": ...})
writeCreated == [status |-> StatusCreated, key |-> "message", text |-> "account created"]

\* Handle, lines 36-67: the response written before the service is called,
\* or call = TRUE and the payload RegisterUser is called with
HandleDecode(rq) ==
  LET dec == Decode(rq.body)
      payload == Normalize(dec.v)
      verr == validateSignUpRequest(payload)
      reply(r) == [call |-> FALSE, resp |-> r, payload |-> ZeroPayload]
  IN  IF rq.method # "POST"
        THEN reply(writeError(StatusMethodNotAllowed, "method not allowed"))
      ELSE IF dec.err # NoError
        THEN reply(writeError(StatusBadRequest, "invalid request body"))
      ELSE IF ensureEOF(rq.body) # NoError
        THEN reply(writeError(StatusBadRequest, "unexpected trailing data"))
      ELSE IF verr # NoError
        THEN reply(writeError(StatusBadRequest, verr.text))
      ELSE [call |-> TRUE, resp |-> writeCreated, payload |-> payload]

\* mutant: the 500 response carries the error's text
HandleRespondLeaking(err) ==
  IF err = NoError THEN writeCreated
  ELSE IF ErrorsIs(err, ErrUserAlreadyExists)
    THEN writeError(StatusConflict, "account exists, please sign in")
  ELSE writeError(StatusInternalServerError, err.text)

\* Handle, lines 69-79: the response for RegisterUser's return value
HandleRespond(err) ==
  IF err = NoError THEN writeCreated
  ELSE IF ErrorsIs(err, ErrUserAlreadyExists)
    THEN writeError(StatusConflict, "account exists, please sign in")
  ELSE writeError(StatusInternalServerError, "signup unavailable")

(***************************************************************************)
(* The persistence layer (the generated Prisma client) and bcrypt.         *)
(***************************************************************************)
\* db.ErrNotFound
ErrNotFound == [text |-> "ErrNotFound", chain |-> {"ErrNotFound"}]
\* any failure of the database or of the context: deadline, connection
ErrUnavailable == ErrorsNew("context deadline exceeded")
\* the unique index on User.username refuses a second row
ErrUniqueConstraint == ErrorsNew("Unique constraint failed on the fields: (username)")

HasUser(rows, username) ==
  \E k \in DOMAIN rows : rows[k].cols["username"] = username

\* client.User.FindUnique(db.User.Username.Equals(username)).Exec(ctx): the
\* errors the call can return
DbFindUnique(rows, username) ==
  {IF HasUser(rows, username) THEN NoError ELSE ErrNotFound} \cup {ErrUnavailable}

\* client.User.CreateOne(params...).Exec(ctx): the outcomes [err, rows] the
\* call can have; by is the request that issued it
DbCreateOne(rows, cols, by) ==
  { IF HasUser(rows, cols["username"])
      THEN [err |-> ErrUniqueConstraint, rows |-> rows]
      ELSE [err |-> NoError, rows |-> Append(rows, [cols |-> cols, by |-> by])],
    [err |-> ErrUnavailable, rows |-> rows] }

\* bcrypt.GenerateFromPassword is a black box to the program: a salted,
\* adaptive one-way function at a fixed cost.  The text of a hash is not
\* modelled; each value below names one of the hashes a call can return, and
\* which one it returns depends on the salt the call draws, so that any of
\* them can come out for any password.  No hash is the text of a password.
BcryptHashes == { <<"bcrypt hash 1">>, <<"bcrypt hash 2">> }

\* bcrypt.GenerateFromPassword([]byte(password), bcrypt.DefaultCost): one of
\* the hashes, or an error
BcryptOutcomes(password) ==
  { [err |-> NoError, hash |-> h] : h \in BcryptHashes }
  \cup { [err |-> ErrorsNew("bcrypt: failure"), hash |-> <<>>] }

(***************************************************************************)
(* RegisterUser, in the steps between its blocking calls.                  *)
(***************************************************************************)
NotReturned == [text |-> "<running>", chain |-> {"running"}]

\* lines 35-37
ClientCheck(configured) ==
  IF configured THEN NotReturned ELSE ErrorsNew("prisma client not configured")

\* mutant: only "found" stops the registration
AfterLookupIgnoringFailure(err) ==
  IF err = NoError THEN ErrUserAlreadyExists ELSE NotReturned

\* lines 46-53: the switch on FindUnique's error; NotReturned: carry on
AfterLookup(err) ==
  IF err = NoError THEN ErrUserAlreadyExists
  ELSE IF ErrorsIs(err, ErrNotFound) THEN NotReturned
  ELSE Wrap("lookup existing user", err)

\* lines 55-58
AfterHash(err) ==
  IF err # NoError THEN Wrap("hash password", err) ELSE NotReturned

\* mutant: the password column is set from the payload, not from the hash
BuildParamsStoringPlaintext(payload, hashedPassword) ==
  LET base == ("username" :> payload.Username)
              @@ ("password" :> Reveal(payload.Password))
      e == IF payload.Email # <<>> THEN ("email" :> payload.Email) ELSE <<>>
      f == IF payload.FirstName # <<>> THEN ("firstName" :> payload.FirstName) ELSE <<>>
      l == IF payload.LastName # <<>> THEN ("lastName" :> payload.LastName) ELSE <<>>
  IN  base @@ e @@ f @@ l

\* lines 60-73: the create parameters
BuildParams(payload, hashedPassword) ==
  LET base == ("username" :> payload.Username) @@ ("password" :> hashedPassword)
      e == IF payload.Email # <<>> THEN ("email" :> payload.Email) ELSE <<>>
      f == IF payload.FirstName # <<>> THEN ("firstName" :> payload.FirstName) ELSE <<>>
      l == IF payload.LastName # <<>> THEN ("lastName" :> payload.LastName) ELSE <<>>
  IN  base @@ e @@ f @@ l

\* mutant: the create's error is dropped
AfterCreateSwallowed(err) == NoError

\* lines 75-79
AfterCreate(err) ==
  IF err # NoError THEN Wrap("create user", err) ELSE NoError

(***************************************************************************)
(* The requests clients send.                                              *)
(***************************************************************************)
Password12 == Rep("p", PasswordMinLen)
Password11 == Rep("p", PasswordMinLen - 1)
\* a password with capitals and surrounding blanks: Normalize must keep it
PasswordRaw == <<" ","P","a","s","s"," ","W","o","r","d"," ","1","2","3","4"," ">>

Body(members) ==
  [kind |-> "object", members |-> members, valueBytes |-> 256,
   trailing |-> "none", totalBytes |-> 256]

\* one member of a JSON object, as a one-member list
Member(key, val) == << [key |-> key, val |-> val] >>

Credentials(username, password) ==
  Member(JsonTags.Username, JStr(username)) \o Member(JsonTags.Password, JStr(password))

Post(body) == [method |-> "POST", body |-> body]

\* requests that pass validation; the first two name the same account, and
\* write some keys in another letter case or twice
ValidRequests ==
  { Post(Body(Member(<<"U","s","e","r","n","a","m","e">>, JStr(<<"A","l","i","c","e">>))
              \o Member(JsonTags.Password, JStr(Password12))
              \o Member(JsonTags.Email, JStr(<<" ","B","o","b","@","E","x","a","m","p","l","e",".","C","O","M"," ">>))
              \o Member(JsonTags.FirstName, JStr(<<" ","A","l"," ">>))
              \o Member(JsonTags.LastName, JStr(<<>>)))),
    Post([Body(Credentials(<<"\t","a","l","i","c","e",VerticalTab>>, Password12)
               \o Member(<<"P","A","S","S","W","O","R","D">>, JStr(PasswordRaw))
               \o Member(JsonTags.LastName, JStr(Rep("n", NameMaxLen)))
               \o Member(JsonTags.Email, JNull))
          EXCEPT !.valueBytes = maxRequestBodyBytes - 1,
                 !.trailing = "space",
                 !.totalBytes = maxRequestBodyBytes]),
    Post(Body(Credentials(Rep("B", UsernameMaxLen), Password12)
              \o Member(JsonTags.Email, JStr(<<"B","o","b"," ","<","b","_","1","@","x",".","o","r","g",">">>)))) }

\* requests Handle must answer without calling the service
InvalidRequests ==
  { [method |-> "GET", body |-> Body(Credentials(<<"a","l","i","c","e">>, Password12))],
    Post(Body(Credentials(<<"a","l","i","c","e">>, Password11))),
    Post(Body(Credentials(<<"a","l","i","c","e">>, Password12)
              \o Member(<<"P","a","s","s","w","o","r","d">>, JStr(<<>>)))),
    Post(Body(Member(JsonTags.Username, JStr(<<"a","l","i","c","e">>))
              \o Member(JsonTags.Password, JNull))),
    Post(Body(Credentials(<<"a","l","i","c","e">>, Password12)
              \o Member(<<"a","d","m","i","n">>, JNum))),
    Post(Body(Credentials(<<"a","l","i","c","e">>, Password12)
              \o Member(JsonTags.Email, JStr(<<"n","o","t","-","a","n","-","e","m","a","i","l">>)))),
    Post(Body(Credentials(<<"a","l">>, Password12))),
    Post(Body(Credentials(<<"a","l",VerticalTab,"i","c","e">>, Password12))),
    Post(Body(Credentials(Rep("a", UsernameMaxLen + 1), Password12))),
    Post(Body(Credentials(<<"a","l","i","c","e">>, Password12)
              \o Member(JsonTags.FirstName, JStr(<<"<","b",">">>)))),
    Post(Body(Credentials(<<"a","l","i","c","e">>, Password12)
              \o Member(JsonTags.LastName, JStr(Rep("n", NameMaxLen + 1))))),
    Post([Body(Credentials(<<"a","l","i","c","e">>, Password12)) EXCEPT !.trailing = "value"]),
    Post([Body(Credentials(<<"a","l","i","c","e">>, Password12))
          EXCEPT !.trailing = "space", !.totalBytes = maxRequestBodyBytes + 1]),
    Post([Body(Credentials(<<"a","l","i","c","e">>, Password12))
          EXCEPT !.valueBytes = maxRequestBodyBytes + 1,
                 !.totalBytes = maxRequestBodyBytes + 1]),
    Post([Body(<<>>) EXCEPT !.kind = "malformed"]),
    Post([Body(<<>>) EXCEPT !.kind = "null"]),
    Post([Body(<<>>) EXCEPT !.kind = "null",
                            !.valueBytes = maxRequestBodyBytes,
                            !.trailing = "space",
                            !.totalBytes = maxRequestBodyBytes + 1]) }

Requests == ValidRequests \cup InvalidRequests

NoRequest == [method |-> "", body |-> Body(<<>>)]

(***************************************************************************)
(* State.                                                                  *)
(***************************************************************************)
Reqs == 1..NumReqs

VARIABLES
  client,     \* whether PrismaUserService.client is non-nil
  users,      \* the User table: a sequence of rows [cols, by]
  pc,         \* where each request's handler stands
  req,        \* the request each handler received
  payload,    \* Handle's payload, as passed to RegisterUser
  params,     \* RegisterUser's params
  ret,        \* what RegisterUser returned to Handle
  resp,       \* the responses written to each request
  calls,      \* the blocking calls each RegisterUser made, in order, each
              \* with its argument, the hash it gave and its error
  doneBefore, \* the requests already answered when each one arrived
  probe,      \* a SignUpRequest that Normalize is applied to
  applied,    \* how many Normalize calls ran, the SignUpRequest before the
              \* last one and the one before the first
  secret,     \* a Secret, and the last UnmarshalJSON call on it
  shown       \* what the methods of the Secret returned

svars == <<client, users, pc, req, payload, params, ret, resp, calls, doneBefore>>
pvars == <<probe, applied, secret, shown>>
vars == <<svars, pvars>>

NotShown == [String |-> <<>>, GoString |-> <<>>, MarshalJSON |-> <<>>,
             Reveal |-> <<>>, n |-> 0]
NotDecoded(s) == [v |-> s, before |-> s, err |-> NoError, data |-> JNull, n |-> 0]
NotApplied(r) == [n |-> 0, before |-> r, raw |-> r]

NoProbe ==
  /\ probe = ZeroPayload
  /\ applied = NotApplied(ZeroPayload)

NoSecret ==
  /\ secret = NotDecoded(<<>>)
  /\ shown = NotShown

ServerInit ==
  /\ users = <<>>
  /\ pc = [i \in Reqs |-> "idle"]
  /\ req = [i \in Reqs |-> NoRequest]
  /\ payload = [i \in Reqs |-> ZeroPayload]
  /\ params = [i \in Reqs |-> <<>>]
  /\ ret = [i \in Reqs |-> NotReturned]
  /\ resp = [i \in Reqs |-> <<>>]
  /\ calls = [i \in Reqs |-> <<>>]
  /\ doneBefore = [i \in Reqs |-> {}]

Init ==
  /\ client \in BOOLEAN
  /\ ServerInit
  /\ NoProbe
  /\ NoSecret

(***************************************************************************)
(* Handle and RegisterUser, one action per stretch between blocking calls. *)
(***************************************************************************)
\* RegisterUser returns err to Handle, which writes the response
Return(i, err) ==
  /\ ret' = [ret EXCEPT ![i] = err]
  /\ resp' = [resp EXCEPT ![i] = Append(@, HandleRespond(err))]
  /\ pc' = [pc EXCEPT ![i] = "done"]

\* each request of the model with what HandleDecode makes of it
Handled == {[rq |-> rq, out |-> HandleDecode(rq)] : rq \in Requests}

\* Handle from its entry to the first blocking call of RegisterUser
Receive(i) ==
  /\ pc[i] = "idle"
  /\ \E hd \in Handled :
       LET h == hd.out
           rq == hd.rq
           entry == ClientCheck(client)
       IN  /\ req' = [req EXCEPT ![i] = rq]
           /\ doneBefore' = [doneBefore EXCEPT ![i] = {j \in Reqs : pc[j] = "done"}]
           /\ payload' = [payload EXCEPT ![i] = h.payload]
           /\ IF ~h.call
                THEN /\ resp' = [resp EXCEPT ![i] = Append(@, h.resp)]
                     /\ pc' = [pc EXCEPT ![i] = "done"]
                     /\ calls' = calls
                     /\ ret' = ret
                ELSE /\ calls' = [calls EXCEPT ![i] = Append(@, [op |-> "RegisterUser", arg |-> <<>>, out |-> <<>>, err |-> entry])]
                     /\ IF entry # NotReturned
                          THEN Return(i, entry)
                          ELSE /\ pc' = [pc EXCEPT ![i] = "lookup"]
                               /\ UNCHANGED <<ret, resp>>
  /\ UNCHANGED <<client, users, params, pvars>>

\* FindUnique and the switch on its error
Lookup(i) ==
  /\ pc[i] = "lookup"
  /\ \E err \in DbFindUnique(users, payload[i].Username) :
       /\ calls' = [calls EXCEPT ![i] = Append(@, [op |-> "FindUnique", arg |-> payload[i].Username, out |-> <<>>, err |-> err])]
       /\ IF AfterLookup(err) # NotReturned
            THEN Return(i, AfterLookup(err))
            ELSE /\ pc' = [pc EXCEPT ![i] = "hash"]
                 /\ UNCHANGED <<ret, resp>>
  /\ UNCHANGED <<client, users, req, payload, params, doneBefore, pvars>>

\* bcrypt and the assembly of the create parameters
Hash(i) ==
  /\ pc[i] = "hash"
  /\ \E out \in BcryptOutcomes(Reveal(payload[i].Password)) :
       /\ calls' = [calls EXCEPT ![i] = Append(@, [op |-> "bcrypt", arg |-> Reveal(payload[i].Password), out |-> out.hash, err |-> out.err])]
       /\ IF AfterHash(out.err) # NotReturned
            THEN /\ Return(i, AfterHash(out.err))
                 /\ params' = params
            ELSE /\ params' = [params EXCEPT ![i] = BuildParams(payload[i], out.hash)]
                 /\ pc' = [pc EXCEPT ![i] = "create"]
                 /\ UNCHANGED <<ret, resp>>
  /\ UNCHANGED <<client, users, req, payload, doneBefore, pvars>>

\* CreateOne and the return
Create(i) ==
  /\ pc[i] = "create"
  /\ \E out \in DbCreateOne(users, params[i], i) :
       /\ calls' = [calls EXCEPT ![i] = Append(@, [op |-> "CreateOne", arg |-> params[i], out |-> <<>>, err |-> out.err])]
       /\ users' = out.rows
       /\ Return(i, AfterCreate(out.err))
  /\ UNCHANGED <<client, req, payload, params, doneBefore, pvars>>

Next == \E i \in Reqs : Receive(i) \/ Lookup(i) \/ Hash(i) \/ Create(i)

Spec == Init /\ [][Next]_vars

(***************************************************************************)
(* Normalize and validateSignUpRequest on every small SignUpRequest.       *)
(***************************************************************************)
Alphabet == {"A", "a", "_", " ", "\t", VerticalTab, "<"}

\* the strings over Alphabet of length at most n
RECURSIVE Strings(_)
Strings(n) ==
  IF n = 0 THEN {<<>>}
  ELSE Strings(n - 1) \cup
       {Append(s, c) : s \in {t \in Strings(n - 1) : Len(t) = n - 1}, c \in Alphabet}

EmailSamples ==
  { <<>>, <<" ","A","@","b",".","C","\t">>, <<"a","@","b"," ","c">>, <<"A"," ","<","a","@","B",">">> }
NameSamples == { <<>>, <<" ","A","l","\n">>, <<"a","\t","b">> }
PasswordSamples == { Password11, Password12, PasswordRaw }

NormalizeInit ==
  /\ client = TRUE
  /\ ServerInit
  /\ NoSecret
  /\ \E s \in Strings(MaxLen), e \in EmailSamples, l \in NameSamples, pw \in PasswordSamples :
       /\ probe \in { [FirstName |-> s, LastName |-> l, Username |-> s,
                       Password |-> pw, Email |-> e],
                      [FirstName |-> l, LastName |-> s, Username |-> s,
                       Password |-> pw, Email |-> e],
                      [FirstName |-> l, LastName |-> l, Username |-> s,
                       Password |-> pw, Email |-> s] }
       /\ applied = NotApplied(probe)

\* payload.Normalize()
ApplyNormalize ==
  /\ applied.n < 2
  /\ applied' = [applied EXCEPT !.n = @ + 1, !.before = probe]
  /\ probe' = Normalize(probe)
  /\ UNCHANGED <<svars, secret, shown>>

NormalizeNext == ApplyNormalize

NormalizeSpec == NormalizeInit /\ [][NormalizeNext]_vars

(***************************************************************************)
(* The Secret: UnmarshalJSON, then the methods that render it.             *)
(***************************************************************************)
JsonData == {JStr(s) : s \in Strings(1)} \cup {JStr(Redacted), JNull, JNum}

SecretInit ==
  /\ client = TRUE
  /\ ServerInit
  /\ NoProbe
  /\ \E s \in Strings(MaxLen) \cup {Redacted, Password12} : secret = NotDecoded(s)
  /\ shown = NotShown

\* err := secret.UnmarshalJSON(data)
Unmarshal ==
  /\ shown = NotShown
  /\ secret.n < 2
  /\ \E data \in JsonData :
       LET r == SecretUnmarshalJSON(secret.v, data)
       IN  secret' = [v |-> r.v, before |-> secret.v, err |-> r.err,
                      data |-> data, n |-> secret.n + 1]
  /\ UNCHANGED <<svars, probe, applied, shown>>

\* fmt's %v and %#v, json.Marshal and Reveal on the Secret
Show ==
  /\ shown = NotShown
  /\ shown' = [String |-> SecretString(secret.v),
               GoString |-> SecretGoString(secret.v),
               MarshalJSON |-> SecretMarshalJSON(secret.v).bytes,
               Reveal |-> Reveal(secret.v),
               n |-> 1]
  /\ UNCHANGED <<svars, probe, applied, secret>>

SecretNext == Unmarshal \/ Show

SecretSpec == SecretInit /\ [][SecretNext]_vars

(***************************************************************************)
(* What the properties speak of.                                           *)
(***************************************************************************)
Arrived(i) == pc[i] # "idle"
Served(i) == pc[i] = "done"
\* Handle called RegisterUser
Invoked(i) == calls[i] # <<>>
CallsOf(i, op) == {k \in DOMAIN calls[i] : calls[i][k].op = op}
RowsBy(i) == {k \in DOMAIN users : users[k].by = i}

\* the members of a request's body written for a field, whatever the letter
\* case of their key
MembersFor(rq, field) ==
  {k \in DOMAIN rq.body.members :
     ToLower(rq.body.members[k].key) = JsonTags[field]}

\* the text a request's body gives a field: the last string written for it
\* ("" when there is none)
RawField(rq, field) ==
  LET written == {k \in MembersFor(rq, field) : rq.body.members[k].val.t = "string"}
  IN  IF written = {} THEN <<>> ELSE rq.body.members[SetMax(written)].val.v

\* the canonical form of a request's username: trimmed, then lowercased
CanonOf(rq) == ToLower(TrimSpace(RawField(rq, "Username")))
CanonTable == [rq \in Requests \cup {NoRequest} |-> CanonOf(rq)]
Canon(rq) == CanonTable[rq]

IsTrimmed(s) == s = <<>> \/ (s[1] \notin WhiteSpace /\ s[Len(s)] \notin WhiteSpace)
IsLower(s) == \A k \in DOMAIN s : s[k] \notin UpperSet

\* ^[a-z0-9_]{3,64}$
CanonicalUsername(s) ==
  /\ Len(s) \in UsernameMinLen..UsernameMaxLen
  /\ \A k \in DOMAIN s : s[k] \in LowerWordChars

\* every persistence call and the hashing of request i did its work: the
\* lookup answered found or not found, nothing failed, no create was refused
NoFailure(i) ==
  /\ client
  /\ \A k \in DOMAIN calls[i] : calls[i][k].err \in {NoError, ErrNotFound, NotReturned}

(***************************************************************************)
(* C1                                                                      *)
(***************************************************************************)
\* C1: no two accounts share a username.  Whatever the interleaving of the
\* lookups and creates of concurrent registrations, the User table never
\* holds two rows with one username, and of the invocations for one
\* username at most one returns success.
C1_NoSharedUsername ==
  /\ \A a, b \in DOMAIN users :
       a # b => users[a].cols["username"] # users[b].cols["username"]
  /\ \A i, j \in Reqs :
       (i # j /\ ret[i] = NoError /\ ret[j] = NoError)
         => payload[i].Username # payload[j].Username

\* two invocations for one username both saw "not found" and both issued
\* their create; one succeeded
C1_Witness ==
  \E i, j \in Reqs :
    /\ i # j
    /\ Served(i) /\ Served(j)
    /\ payload[i].Username = payload[j].Username
    /\ CallsOf(i, "CreateOne") # {} /\ CallsOf(j, "CreateOne") # {}
    /\ ret[i] = NoError
    /\ Len(users) = 1

(***************************************************************************)
(* C2                                                                      *)
(***************************************************************************)
\* C2: a create refused by the uniqueness constraint (the registration lost
\* the race after its lookup said "not found") is reported as the duplicate
\* account: RegisterUser returns an error that is ErrUserAlreadyExists and
\* Handle answers 409 "account exists, please sign in".
C2_ConflictIsDuplicate ==
  \A i \in Reqs :
    (Served(i) /\ \E k \in CallsOf(i, "CreateOne") : calls[i][k].err = ErrUniqueConstraint)
      => /\ ErrorsIs(ret[i], ErrUserAlreadyExists)
         /\ resp[i] = <<writeError(StatusConflict, "account exists, please sign in")>>

(***************************************************************************)
(* C3                                                                      *)
(***************************************************************************)
\* request j was answered before request i arrived, and every other valid
\* request for the same account arrived after j was answered
Sequential(j, i) ==
  /\ j # i
  /\ Served(j) /\ Served(i)
  /\ j \in doneBefore[i]
  /\ \A k \in Reqs \ {j} :
       (Arrived(k) /\ Invoked(k) /\ Canon(req[k]) = Canon(req[j])) => j \in doneBefore[k]

\* C3: of two valid POST /signup requests handled one after the other whose
\* usernames are equal once trimmed and lowercased, with no persistence
\* failure, the first is answered 201 and creates the record, the second is
\* answered 409 "account exists, please sign in" and creates nothing.
C3_SecondSignupConflicts ==
  \A j, i \in Reqs :
    ( /\ Sequential(j, i)
      /\ Invoked(j) /\ Invoked(i)
      /\ Canon(req[j]) = Canon(req[i])
      /\ NoFailure(j) /\ NoFailure(i) )
    => /\ resp[j] = <<writeCreated>>
       /\ \E k \in RowsBy(j) : users[k].cols["username"] = Canon(req[j])
       /\ resp[i] = <<writeError(StatusConflict, "account exists, please sign in")>>
       /\ RowsBy(i) = {}
       /\ CallsOf(i, "CreateOne") = {}

\* "Alice", then a differently written "alice", one after the other
C3_Witness ==
  \E j, i \in Reqs :
    /\ Sequential(j, i)
    /\ Invoked(j) /\ Invoked(i)
    /\ NoFailure(j) /\ NoFailure(i)
    /\ Canon(req[j]) = Canon(req[i])
    /\ RawField(req[j], "Username") # RawField(req[i], "Username")
    /\ resp[i][1].status = StatusConflict

(***************************************************************************)
(* C4                                                                      *)
(***************************************************************************)
\* a request the service may be called for: a POST whose body is one JSON
\* value within the 1 MiB cap, with known fields only and nothing but white
\* space after it, and whose normalized fields are all valid
Acceptable(rq) ==
  LET b == rq.body
      name(field) == TrimSpace(RawField(rq, field))
      email == ToLower(TrimSpace(RawField(rq, "Email")))
  IN  /\ rq.method = "POST"
      /\ b.kind \in {"object", "null"}
      /\ b.valueBytes <= maxRequestBodyBytes /\ b.totalBytes <= maxRequestBodyBytes
      /\ b.trailing \in {"none", "space"}
      /\ \A k \in DOMAIN b.members :
           /\ \E f \in DOMAIN JsonTags : k \in MembersFor(rq, f)
           /\ b.members[k].val.t \in {"string", "null"}
      /\ \A k \in MembersFor(rq, "Password") :
           b.members[k].val.t = "string" /\ b.members[k].val.v # <<>>
      /\ CanonicalUsername(CanonOf(rq))
      /\ Len(RawField(rq, "Password")) >= PasswordMinLen
      /\ email = <<>> \/ ParseAddressOK(email)
      /\ \A field \in {"FirstName", "LastName"} :
           /\ Len(name(field)) <= NameMaxLen
           /\ \A k \in DOMAIN name(field) :
                name(field)[k] \notin {"<", ">", "{", "}", "\n", "\r", "\t"}

\* Acceptable on each request of the model, evaluated once
AcceptableRequest == [rq \in Requests |-> Acceptable(rq)]

\* C4: Handle calls RegisterUser (and so looks up, hashes or creates) only
\* for an acceptable request; every other request is answered 405 (not a
\* POST) or 400 with no hashing and no persistence call.
C4_ServiceOnlyForValidRequests ==
  \A i \in Reqs :
    Arrived(i) =>
      /\ Invoked(i) => AcceptableRequest[req[i]]
      /\ ~AcceptableRequest[req[i]] =>
           /\ calls[i] = <<>> /\ params[i] = <<>> /\ RowsBy(i) = {}
           /\ ret[i] = NotReturned
           /\ Len(resp[i]) = 1
           /\ resp[i][1].key = "error"
           /\ resp[i][1].status =
                IF req[i].method # "POST" THEN StatusMethodNotAllowed ELSE StatusBadRequest

\* one request was refused for its 11-character password, another for the
\* data after its JSON value, while a valid one reached the service
C4_Witness ==
  \E i, j \in Reqs :
    /\ Served(i) /\ ~Invoked(i)
    /\ req[i].method = "POST"
    /\ \/ Len(RawField(req[i], "Password")) = PasswordMinLen - 1
       \/ req[i].body.trailing = "value"
    /\ resp[i][1].status = StatusBadRequest
    /\ CallsOf(j, "FindUnique") # {}

(***************************************************************************)
(* C5                                                                      *)
(***************************************************************************)
\* C5: for a request that reached RegisterUser, Handle writes exactly one
\* response, decided by what the service returned: 201 "account created"
\* exactly for nil, 409 exactly for an error that is ErrUserAlreadyExists,
\* and for any other error 500 with the fixed body "signup unavailable",
\* which holds nothing of the error's text.
C5_ResponseFollowsServiceResult ==
  \A i \in Reqs :
    Invoked(i) =>
      /\ ~Served(i) => (resp[i] = <<>> /\ ret[i] = NotReturned)
      /\ Served(i) =>
           /\ Len(resp[i]) = 1
           /\ ret[i] # NotReturned
           /\ resp[i][1].status = StatusCreated <=> ret[i] = NoError
           /\ resp[i][1].status = StatusCreated => resp[i][1] = writeCreated
           /\ resp[i][1].status = StatusConflict <=> ErrorsIs(ret[i], ErrUserAlreadyExists)
           /\ (ret[i] # NoError /\ ~ErrorsIs(ret[i], ErrUserAlreadyExists)) =>
                /\ resp[i][1] = writeError(StatusInternalServerError, "signup unavailable")
                /\ resp[i][1].text # ret[i].text
           /\ (\E k \in DOMAIN calls[i] :
                 calls[i][k].err \notin {NoError, ErrNotFound, NotReturned})
                => resp[i][1].status = StatusInternalServerError

\* a lookup failed and the request was answered 500
C5_Witness ==
  \E i \in Reqs :
    /\ Served(i)
    /\ ret[i] = Wrap("lookup existing user", ErrUnavailable)
    /\ resp[i][1].status = StatusInternalServerError

(***************************************************************************)
(* C6                                                                      *)
(***************************************************************************)
\* C6: whatever the secret, String and GoString return the one placeholder
\* "[REDACTED]" and MarshalJSON the one placeholder "***redacted***", so
\* what they return does not depend on the secret; Reveal alone returns the
\* raw value; and UnmarshalJSON of an empty string fails and leaves the
\* Secret as it was.
C6_SecretIsRedacted ==
  /\ shown.n > 0 =>
       /\ shown.String = Redacted
       /\ shown.GoString = Redacted
       /\ shown.MarshalJSON = RedactedJSON
       /\ shown.Reveal = secret.v
  /\ (secret.n > 0 /\ secret.data = JStr(<<>>)) =>
       /\ secret.err # NoError
       /\ secret.v = secret.before
  /\ (secret.n > 0 /\ secret.err = NoError) =>
       /\ secret.data.t = "string"
       /\ secret.v = secret.data.v
       /\ secret.v # <<>>

\* a secret that is none of the placeholders was rendered, after an
\* UnmarshalJSON of the empty string had failed on it
C6_Witness ==
  /\ shown.n > 0
  /\ secret.n > 0
  /\ secret.data = JStr(<<>>)
  /\ secret.v \notin {<<>>, Redacted}
  /\ shown.Reveal # shown.String

(***************************************************************************)
(* C7                                                                      *)
(***************************************************************************)
\* C7: Normalize is idempotent.  A second Normalize changes none of the
\* five fields, neither call changes Password, and validation answers the
\* same for the payload normalized once and twice.
C7_NormalizeIdempotent ==
  /\ applied.n >= 1 => probe.Password = applied.raw.Password
  /\ applied.n = 2 =>
       /\ probe = applied.before
       /\ validateSignUpRequest(probe) = validateSignUpRequest(applied.before)

\* a payload that the first Normalize changed and that is valid afterwards
C7_Witness ==
  /\ applied.n = 2
  /\ applied.raw.Username # probe.Username
  /\ applied.raw.FirstName # probe.FirstName
  /\ validateSignUpRequest(probe) = NoError

(***************************************************************************)
(* C8                                                                      *)
(***************************************************************************)
\* the blocking calls of invocation i, in order
Ops(i) == [k \in DOMAIN calls[i] |-> calls[i][k].op]
IsPrefix(s, t) == Len(s) <= Len(t) /\ s = SubSeq(t, 1, Len(s))

\* C8: within one RegisterUser the lookup comes first and the create is
\* issued at most once, only after the lookup said "not found" and the
\* hashing succeeded; when the lookup finds a record or fails there is no
\* hashing and no create and the invocation adds no row: at most two
\* persistence calls, never a retry.
C8_LookupThenCreate ==
  \A i \in Reqs :
    /\ IsPrefix(Ops(i), <<"RegisterUser", "FindUnique", "bcrypt", "CreateOne">>)
    /\ CallsOf(i, "CreateOne") # {} =>
         /\ calls[i][2].err = ErrNotFound
         /\ calls[i][3].err = NoError
    /\ CallsOf(i, "bcrypt") # {} => calls[i][2].err = ErrNotFound
    /\ (CallsOf(i, "FindUnique") # {} /\ calls[i][2].err # ErrNotFound) =>
         /\ Len(calls[i]) = 2
         /\ Served(i)
         /\ params[i] = <<>>
    /\ CallsOf(i, "CreateOne") = {} => RowsBy(i) = {}
    /\ Cardinality(RowsBy(i)) <= 1

\* one invocation looked up, hashed and created; the next one found the
\* record and stopped after its lookup
C8_Witness ==
  \E i, j \in Reqs :
    /\ Ops(j) = <<"RegisterUser", "FindUnique", "bcrypt", "CreateOne">>
    /\ RowsBy(j) # {}
    /\ Served(i) /\ Len(calls[i]) = 2 /\ calls[i][2].err = NoError

(***************************************************************************)
(* C9                                                                      *)
(***************************************************************************)
Optional == {<<"email", "Email">>, <<"firstName", "FirstName">>, <<"lastName", "LastName">>}

\* C9: the create parameters always hold the username and the password
\* hash, and hold email, first name and last name each exactly when the
\* payload's field is not empty; no empty string is written, and the
\* password stored is the hash, never the revealed password.
C9_CreateParameters ==
  \A i \in Reqs :
    params[i] # <<>> =>
      /\ {"username", "password"} \subseteq DOMAIN params[i]
      /\ DOMAIN params[i] \subseteq {"username", "password", "email", "firstName", "lastName"}
      /\ params[i]["username"] = payload[i].Username
      /\ \E k \in CallsOf(i, "bcrypt") :
           /\ calls[i][k].err = NoError
           /\ calls[i][k].arg = Reveal(payload[i].Password)
           /\ params[i]["password"] = calls[i][k].out
      /\ params[i]["password"] # Reveal(payload[i].Password)
      /\ \A o \in Optional :
           /\ o[1] \in DOMAIN params[i] <=> payload[i][o[2]] # <<>>
           /\ o[1] \in DOMAIN params[i] => params[i][o[1]] = payload[i][o[2]]
      /\ \A c \in DOMAIN params[i] : params[i][c] # <<>>
      /\ \A k \in CallsOf(i, "CreateOne") : calls[i][k].arg = params[i]
      /\ \A k \in RowsBy(i) : users[k].cols = params[i]

\* a record was created with an email and a first name but no last name,
\* its password column holding a hash
C9_Witness ==
  \E k \in DOMAIN users :
    /\ DOMAIN users[k].cols = {"username", "password", "email", "firstName"}
    /\ users[k].cols["password"] \in BcryptHashes
    /\ RawField(req[users[k].by], "LastName") = <<>>
    /\ MembersFor(req[users[k].by], "LastName") # {}

(***************************************************************************)
(* C10                                                                     *)
(***************************************************************************)
\* C10: every username looked up or stored is canonical (trimmed, lowercase,
\* ^[a-z0-9_]{3,64}$) and every stored email is trimmed and lowercase,
\* after any sequence of registrations that reach RegisterUser through
\* Handle.
C10_CanonicalPersistedState ==
  /\ \A i \in Reqs :
       /\ \A k \in CallsOf(i, "FindUnique") :
            /\ CanonicalUsername(calls[i][k].arg)
            /\ calls[i][k].arg = Canon(req[i])
       /\ \A k \in CallsOf(i, "CreateOne") :
            CanonicalUsername(calls[i][k].arg["username"])
  /\ \A k \in DOMAIN users :
       /\ CanonicalUsername(users[k].cols["username"])
       /\ IsTrimmed(users[k].cols["username"]) /\ IsLower(users[k].cols["username"])
       /\ users[k].cols["username"] = Canon(req[users[k].by])
       /\ "email" \in DOMAIN users[k].cols =>
            (IsTrimmed(users[k].cols["email"]) /\ IsLower(users[k].cols["email"]))

\* a record whose username and email were sent with capitals and blanks
C10_Witness ==
  \E k \in DOMAIN users :
    /\ "email" \in DOMAIN users[k].cols
    /\ users[k].cols["email"] # RawField(req[users[k].by], "Email")
    /\ ~IsLower(RawField(req[users[k].by], "Username"))
    /\ \E j \in DOMAIN users : users[j].cols["username"] # RawField(req[users[j].by], "Username")

=============================================================================
